---- MODULE Spec2Model ----
(***************************************************************************)
(* coinaddr: validation of cryptocurrency addresses.                       *)
(*                                                                         *)
(* An address is a tuple of one-character strings (the bytes of            *)
(* ValidationRequest.address), a byte string is a tuple of 0..255.         *)
(* Functions that can raise return a record [ok, ...]: ok = FALSE carries  *)
(* the exception in exc.                                                   *)
(***************************************************************************)
EXTENDS Integers, Sequences, FiniteSets, TLC

(***************************************************************************)
(* Bits and bytes.                                                         *)
(***************************************************************************)
Pow2 == <<1, 2, 4, 8, 16, 32, 64, 128, 256, 512, 1024, 2048, 4096, 8192,
          16384, 32768, 65536>>

\* f as an explicit tuple of its n values
Tup(f, n) == SubSeq(f, 1, n)

\* F(x), with x computed before F is entered
Bind(x, F(_)) == CHOOSE r \in {F(v) : v \in {x}} : TRUE

RECURSIVE Iterate(_, _, _, _)
\* s after the steps lo..hi of a loop: F(F(...F(s, lo)..., hi - 1), hi),
\* each step's value computed before the next step starts
Iterate(F(_, _), s, lo, hi) ==
    IF lo > hi THEN s
    ELSE IF lo = hi THEN F(s, lo)
    ELSE LET mid == (lo + hi) \div 2
         IN  Bind(Iterate(F, s, lo, mid),
                  LAMBDA a : Iterate(F, a, mid + 1, hi))

\* the concatenation of the n tuples ss[1..n], each of length w
Flatten(ss, n, w) ==
    Tup([i \in 1..(n * w) |-> ss[((i - 1) \div w) + 1][((i - 1) % w) + 1]],
        n * w)

\* the number whose binary digits are bits[lo..lo + 7], most significant
\* first
BitsVal8(bits, lo) ==
    (  (128 * bits[lo] + 64 * bits[lo + 1])
     + (32 * bits[lo + 2] + 16 * bits[lo + 3]))
    + (  (8 * bits[lo + 4] + 4 * bits[lo + 5])
       + (2 * bits[lo + 6] + bits[lo + 7]))

BitsVal16(bits, lo) == 256 * BitsVal8(bits, lo) + BitsVal8(bits, lo + 8)

\* the 8 bits of a byte, most significant first
ByteBits(b) == Tup([i \in 1..8 |-> (b \div Pow2[9 - i]) % 2], 8)

\* a byte string as its bits, each byte most significant bit first
BytesBits(bs) ==
    Flatten(Tup([k \in 1..Len(bs) |-> ByteBits(bs[k])], Len(bs)), Len(bs), 8)

\* a bit string (most significant bit of each byte first) as bytes
BitsBytes(bits) ==
    Tup([k \in 1..(Len(bits) \div 8) |-> BitsVal8(bits, 8 * k - 7)],
        Len(bits) \div 8)

\* n zero bytes
Zeros(n) == Tup([i \in 1..n |-> 0], n)

(***************************************************************************)
(* hashlib.sha256 (FIPS 180-4).  A word is a tuple of 32 bits, most        *)
(* significant first.                                                      *)
(***************************************************************************)
Word(hi, lo) ==
    Tup([i \in 1..32 |-> IF i <= 16 THEN (hi \div Pow2[17 - i]) % 2
                                     ELSE (lo \div Pow2[33 - i]) % 2], 32)

\* the sum of the 16-bit halves at lo of the (at most five) words ws
SumHalves(ws, lo) ==
    LET half(i) == IF i <= Len(ws) THEN BitsVal16(ws[i], lo) ELSE 0
    IN  (half(1) + half(2)) + (half(3) + (half(4) + half(5)))

\* the sum of the words ws modulo 2^32
Sum32(ws) ==
    LET lo == SumHalves(ws, 17)
        hi == SumHalves(ws, 1) + lo \div 65536
    IN  Word(hi % 65536, lo % 65536)

Rotr(w, n) == Tup([i \in 1..32 |-> w[((i - 1 - n) % 32) + 1]], 32)
Shr(w, n) == Tup([i \in 1..32 |-> IF i <= n THEN 0 ELSE w[i - n]], 32)
Xor3(a, b, c) == Tup([i \in 1..32 |-> (a[i] + b[i] + c[i]) % 2], 32)
Ch(e, f, g) == Tup([i \in 1..32 |-> IF e[i] = 1 THEN f[i] ELSE g[i]], 32)
Maj(a, b, c) ==
    Tup([i \in 1..32 |-> IF a[i] + b[i] + c[i] >= 2 THEN 1 ELSE 0], 32)

BigSigma0(a) == Xor3(Rotr(a, 2), Rotr(a, 13), Rotr(a, 22))
BigSigma1(e) == Xor3(Rotr(e, 6), Rotr(e, 11), Rotr(e, 25))
SmallSigma0(x) == Xor3(Rotr(x, 7), Rotr(x, 18), Shr(x, 3))
SmallSigma1(x) == Xor3(Rotr(x, 17), Rotr(x, 19), Shr(x, 10))

Sha256K ==
  << <<17034, 12184>>, <<28983, 17553>>, <<46528, 64463>>, <<59829, 56229>>,
     <<14678, 49755>>, <<23025, 4593>>, <<37439, 33444>>, <<43804, 24277>>,
     <<55303, 43672>>, <<4739, 23297>>, <<9265, 34238>>, <<21772, 32195>>,
     <<29374, 23924>>, <<32990, 45566>>, <<39900, 1703>>, <<49563, 61812>>,
     <<58523, 27073>>, <<61374, 18310>>, <<4033, 40390>>, <<9228, 41420>>,
     <<11753, 11375>>, <<19060, 33962>>, <<23728, 43484>>, <<30457, 35034>>,
     <<38974, 20818>>, <<43057, 50797>>, <<45059, 10184>>, <<48985, 32711>>,
     <<50912, 3059>>, <<54695, 37191>>, <<1738, 25425>>, <<5161, 10599>>,
     <<10167, 2693>>, <<11803, 8504>>, <<19756, 28156>>, <<21304, 3347>>,
     <<25866, 29524>>, <<30314, 2747>>, <<33218, 51502>>, <<37490, 11397>>,
     <<41663, 59553>>, <<43034, 26187>>, <<49739, 35696>>, <<51052, 20899>>,
     <<53650, 59417>>, <<54937, 1572>>, <<62478, 13701>>, <<4202, 41072>>,
     <<6564, 49430>>, <<7735, 27656>>, <<10056, 30540>>, <<13488, 48309>>,
     <<14620, 3251>>, <<20184, 43594>>, <<23452, 51791>>, <<26670, 28659>>,
     <<29839, 33518>>, <<30885, 25455>>, <<33992, 30740>>, <<36039, 520>>,
     <<37054, 65530>>, <<42064, 27883>>, <<48889, 41975>>, <<50801, 30962>> >>

Sha256H0 ==
  << <<27145, 58983>>, <<47975, 44677>>, <<15470, 62322>>, <<42319, 62778>>,
     <<20750, 21119>>, <<39685, 26764>>, <<8067, 55723>>, <<23520, 52505>> >>

\* the message followed by 0x80, zeros up to 56 mod 64, and its bit length
Sha256Pad(msg) ==
    LET n == Len(msg)
        z == (119 - n) % 64
        bits == 8 * n
    IN  msg \o <<128>> \o Zeros(z) \o Zeros(6)
            \o <<(bits \div 256) % 256, bits % 256>>

\* the message schedule, word t appended to the words before it
Sha256ScheduleStep(w, t) ==
    Append(w, Sum32(<<SmallSigma1(w[t - 2]), w[t - 7],
                      SmallSigma0(w[t - 15]), w[t - 16]>>))

\* round t on the working variables s = <<a, b, c, d, e, f, g, h>>
Sha256Round(s, w, t) ==
    LET t1 == Sum32(<<s[8], BigSigma1(s[5]), Ch(s[5], s[6], s[7]),
                      Word(Sha256K[t][1], Sha256K[t][2]), w[t]>>)
        t2 == Sum32(<<BigSigma0(s[1]), Maj(s[1], s[2], s[3])>>)
    IN  <<Sum32(<<t1, t2>>), s[1], s[2], s[3],
          Sum32(<<s[4], t1>>), s[5], s[6], s[7]>>

Sha256Compress(h, block) ==
    LET w16 == Tup([i \in 1..16 |-> SubSeq(block, 32 * i - 31, 32 * i)], 16)
    IN  Bind(Iterate(Sha256ScheduleStep, w16, 17, 64), LAMBDA w :
        Bind(Iterate(LAMBDA v, t : Sha256Round(v, w, t), h, 1, 64), LAMBDA s :
             Tup([i \in 1..8 |-> Sum32(<<h[i], s[i]>>)], 8)))

\* sha256(msg).digest()
Sha256(msg) ==
    LET h0 == Tup([i \in 1..8 |-> Word(Sha256H0[i][1], Sha256H0[i][2])], 8)
    IN  Bind(BytesBits(Sha256Pad(msg)), LAMBDA bits :
        Bind(Iterate(LAMBDA v, k :
                         Sha256Compress(v, SubSeq(bits, 512 * k - 511,
                                                  512 * k)),
                     h0, 1, Len(bits) \div 512), LAMBDA h :
             BitsBytes(Flatten(h, 8, 32))))

(***************************************************************************)
(* sha3.keccak_256 (Keccak[512], original 0x01 padding, rate 136 bytes).   *)
(* A lane is a tuple of 64 bits, least significant first; the state is the *)
(* tuple of its 25 lanes, lane (x, y) at index x + 5 * y + 1.              *)
(***************************************************************************)
KeccakRC ==
  << {0}, {1, 7, 15}, {1, 3, 7, 15, 63}, {15, 31, 63}, {0, 1, 3, 7, 15},
     {0, 31}, {0, 7, 15, 31, 63}, {0, 3, 15, 63}, {1, 3, 7}, {3, 7},
     {0, 3, 15, 31}, {1, 3, 31}, {0, 1, 3, 7, 15, 31}, {0, 1, 3, 7, 63},
     {0, 3, 7, 15, 63}, {0, 1, 15, 63}, {1, 15, 63}, {7, 63}, {1, 3, 15},
     {1, 3, 31, 63}, {0, 7, 15, 31, 63}, {7, 15, 63}, {0, 31},
     {3, 15, 31, 63} >>

\* rotation offsets, KeccakRot[x + 1][y + 1]
KeccakRot ==
  << <<0, 36, 3, 41, 18>>, <<1, 44, 10, 45, 2>>, <<62, 6, 43, 15, 61>>,
     <<28, 55, 25, 21, 56>>, <<27, 20, 39, 8, 14>> >>

LaneAt(a, x, y) == a[(x % 5) + 5 * (y % 5) + 1]
Rol(l, n) == Tup([i \in 1..64 |-> l[((i - 1 - n) % 64) + 1]], 64)
Xor(a, b) == Tup([i \in 1..64 |-> (a[i] + b[i]) % 2], 64)

\* theta: every lane xored with the parities of two columns
KeccakTheta(a) ==
    Bind(Tup([x \in 1..5 |->
               Tup([i \in 1..64 |->
                     (a[x][i] + a[x + 5][i] + a[x + 10][i]
                        + a[x + 15][i] + a[x + 20][i]) % 2], 64)], 5),
         LAMBDA c :
    Bind(Tup([x \in 1..5 |->
               Xor(c[((x + 3) % 5) + 1], Rol(c[(x % 5) + 1], 1))], 5),
         LAMBDA d :
         Tup([k \in 1..25 |-> Xor(a[k], d[((k - 1) % 5) + 1])], 25)))

\* rho and pi: lane (x, y) rotated and moved to (y, 2x + 3y)
KeccakRhoPi(a) ==
    Tup([k \in 1..25 |->
          LET bx == (k - 1) % 5
              by == (k - 1) \div 5
              sx == (bx + 3 * by) % 5
          IN  Rol(LaneAt(a, sx, bx), KeccakRot[sx + 1][bx + 1])], 25)

\* chi: lane (x, y) xor (not lane (x + 1, y)) and lane (x + 2, y)
KeccakChi(b) ==
    Tup([k \in 1..25 |->
          LET x == (k - 1) % 5
              y == (k - 1) \div 5
              b0 == b[k]
              b1 == LaneAt(b, x + 1, y)
              b2 == LaneAt(b, x + 2, y)
          IN  Tup([i \in 1..64 |->
                    (b0[i] + (1 - b1[i]) * b2[i]) % 2], 64)], 25)

\* iota: the round constant xored into lane (0, 0)
KeccakIota(a, rnd) ==
    <<Tup([i \in 1..64 |->
            IF (i - 1) \in KeccakRC[rnd] THEN 1 - a[1][i] ELSE a[1][i]], 64)>>
        \o SubSeq(a, 2, 25)

KeccakRound(a, rnd) ==
    Bind(KeccakTheta(a), LAMBDA th :
    Bind(KeccakRhoPi(th), LAMBDA b :
    Bind(KeccakChi(b), LAMBDA ch : KeccakIota(ch, rnd))))

\* Keccak-f[1600]: the 24 rounds
KeccakF(a) == Iterate(KeccakRound, a, 1, 24)

\* the message followed by 0x01, zeros, and 0x80 in the last byte of a block
KeccakPad(msg) ==
    LET z == 135 - (Len(msg) % 136)
    IN  IF z = 0 THEN msg \o <<129>>
        ELSE msg \o <<1>> \o Zeros(z - 1) \o <<128>>

ByteBitsLE(b) == Tup([i \in 1..8 |-> (b \div Pow2[i]) % 2], 8)

\* the lanes of one 136-byte block (the capacity lanes are zero)
KeccakLanes(block) ==
    Tup([k \in 1..25 |->
          IF k <= 17
          THEN Flatten(Tup([j \in 1..8 |-> ByteBitsLE(block[8 * (k - 1) + j])],
                           8), 8, 8)
          ELSE Tup([i \in 1..64 |-> 0], 64)], 25)

\* block n of the padded message absorbed into the state a
KeccakAbsorb(a, padded, n) ==
    Bind(KeccakLanes(SubSeq(padded, 136 * n - 135, 136 * n)), LAMBDA l :
    Bind(Tup([k \in 1..25 |-> Xor(a[k], l[k])], 25), LAMBDA m : KeccakF(m)))

\* the number whose binary digits are bits[lo..lo + 7], least significant
\* first
BitsVal8LE(bits, lo) ==
    (  (bits[lo] + 2 * bits[lo + 1])
     + (4 * bits[lo + 2] + 8 * bits[lo + 3]))
    + (  (16 * bits[lo + 4] + 32 * bits[lo + 5])
       + (64 * bits[lo + 6] + 128 * bits[lo + 7]))

\* sha3.keccak_256(msg).digest()
Keccak256(msg) ==
    LET a0 == Tup([k \in 1..25 |-> Tup([i \in 1..64 |-> 0], 64)], 25)
    IN  Bind(KeccakPad(msg), LAMBDA padded :
        Bind(Iterate(LAMBDA v, n : KeccakAbsorb(v, padded, n), a0, 1,
                     Len(padded) \div 136), LAMBDA a :
             Tup([k \in 1..32 |->
                   BitsVal8LE(a[((k - 1) \div 8) + 1],
                              8 * ((k - 1) % 8) + 1)], 32)))

\* the hexadecimal digits (as numbers 0..15) of a digest: .hexdigest()
HexDigits(bs) ==
    Tup([i \in 1..(2 * Len(bs)) |->
          IF i % 2 = 1 THEN bs[(i + 1) \div 2] \div 16
                       ELSE bs[i \div 2] % 16], 2 * Len(bs))

(***************************************************************************)
(* Characters.                                                             *)
(***************************************************************************)
Digits == <<"0", "1", "2", "3", "4", "5", "6", "7", "8", "9">>
Lowers == <<"a", "b", "c", "d", "e", "f", "g", "h", "i", "j", "k", "l", "m",
            "n", "o", "p", "q", "r", "s", "t", "u", "v", "w", "x", "y", "z">>
Uppers == <<"A", "B", "C", "D", "E", "F", "G", "H", "I", "J", "K", "L", "M",
            "N", "O", "P", "Q", "R", "S", "T", "U", "V", "W", "X", "Y", "Z">>

Range(seq) == {seq[i] : i \in 1..Len(seq)}

\* the least position of ch in seq, 0 when it is not there
IndexOf(seq, ch) ==
    IF ch \in Range(seq)
    THEN CHOOSE i \in 1..Len(seq) :
             seq[i] = ch /\ \A j \in 1..(i - 1) : seq[j] # ch
    ELSE 0

\* str.lower() and str.upper() of one ASCII character
LowerChar(ch) ==
    IF ch \in Range(Uppers) THEN Lowers[IndexOf(Uppers, ch)] ELSE ch
UpperChar(ch) ==
    IF ch \in Range(Lowers) THEN Uppers[IndexOf(Lowers, ch)] ELSE ch
Lower(str) == Tup([i \in 1..Len(str) |-> LowerChar(str[i])], Len(str))

\* the ASCII code of the characters an address of the model can hold
AsciiCode(ch) ==
    IF ch \in Range(Digits) THEN 47 + IndexOf(Digits, ch)
    ELSE IF ch \in Range(Uppers) THEN 64 + IndexOf(Uppers, ch)
    ELSE IF ch \in Range(Lowers) THEN 96 + IndexOf(Lowers, ch)
    ELSE 10
Encode(str) == Tup([i \in 1..Len(str) |-> AsciiCode(str[i])], Len(str))

(***************************************************************************)
(* Arbitrary-precision naturals as tuples of base-256 digits, most         *)
(* significant first, without leading zeros (Python's int).                *)
(***************************************************************************)
\* ds * m + c, for 0 <= c < m < 256: the digits from the least
\* significant up, with the carry
MulAdd(ds, m, c) ==
    LET n == Len(ds)
        r == Iterate(LAMBDA s, k :
                         LET v == ds[n + 1 - k] * m + s[1]
                         IN  <<v \div 256, <<v % 256>> \o s[2]>>,
                     <<c, <<>>>>, 1, n)
    IN  IF r[1] = 0 THEN r[2] ELSE <<r[1]>> \o r[2]

\* <<quotient, remainder>> of ds by d, for 0 < d < 256: long division
DivMod(ds, d) ==
    Iterate(LAMBDA s, k :
                LET v == s[2] * 256 + ds[k]
                    qd == v \div d
                IN  <<IF s[1] = <<>> /\ qd = 0 THEN <<>>
                                               ELSE Append(s[1], qd),
                      v % d>>,
            <<<<>>, 0>>, 1, Len(ds))

\* bytes.lstrip(x)
StripLeft(seq, e) ==
    LET others == {i \in 1..Len(seq) : seq[i] # e}
    IN  IF others = {} THEN <<>>
        ELSE SubSeq(seq, CHOOSE i \in others : \A j \in others : i <= j,
                    Len(seq))

Repeat(e, n) == Tup([i \in 1..n |-> e], n)

(***************************************************************************)
(* The base58check library: b58decode and b58encode.                       *)
(***************************************************************************)
DEFAULT_CHARSET ==
    <<"1", "2", "3", "4", "5", "6", "7", "8", "9", "A", "B", "C", "D", "E",
      "F", "G", "H", "J", "K", "L", "M", "N", "P", "Q", "R", "S", "T", "U",
      "V", "W", "X", "Y", "Z", "a", "b", "c", "d", "e", "f", "g", "h", "i",
      "j", "k", "m", "n", "o", "p", "q", "r", "s", "t", "u", "v", "w", "x",
      "y", "z">>

\* output = output * base + charset.index(char), over the characters of val
B58DecodeInt(val, charset) ==
    Iterate(LAMBDA acc, i : MulAdd(acc, 58, IndexOf(charset, val[i]) - 1),
            <<>>, 1, Len(val))

\* b58decode(val, charset): ValueError on a character outside the charset
B58Decode(val, charset) ==
    IF \E i \in 1..Len(val) : val[i] \notin Range(charset)
    THEN [ok |-> FALSE, exc |-> "ValueError"]
    ELSE LET rest == StripLeft(val, charset[1])
             pad == Len(val) - Len(rest)
         IN  [ok |-> TRUE,
              val |-> Zeros(pad) \o B58DecodeInt(rest, charset)]

\* while int_: int_, idx = divmod(int_, base); output = charset[idx] +
\* output.  A number of n bytes has at most 2 * n digits in base 58.
B58EncodeInt(acc, charset) ==
    Iterate(LAMBDA s, k :
                IF s[1] = <<>> THEN s
                ELSE LET qr == DivMod(s[1], 58)
                     IN  <<qr[1], <<charset[qr[2] + 1]>> \o s[2]>>,
            <<acc, <<>>>>, 1, 2 * Len(acc))[2]

\* b58encode(val, charset)
B58Encode(val, charset) ==
    LET rest == StripLeft(val, 0)
        pad == Len(val) - Len(rest)
    IN  Repeat(charset[1], pad) \o B58EncodeInt(rest, charset)

(***************************************************************************)
(* base58_xmr.decode, the block-wise Base58 of the Monero scheme, and      *)
(* binascii.unhexlify of its result.                                       *)
(***************************************************************************)
XmrFullBlockSize == 8
XmrFullEncodedBlockSize == 11

\* XmrEncodedBlockSizes[n]: the characters that encode a block of n bytes
XmrEncodedBlockSizes == <<2, 3, 4, 6, 7, 8, 9, 11>>

\* one block of characters as the bytes it encodes; ValueError on a
\* character outside the alphabet and on a value the block cannot hold
XmrDecodeBlock(block) ==
    LET size == IndexOf(XmrEncodedBlockSizes, Len(block))
    IN  IF size = 0 \/ \E i \in 1..Len(block) :
                           block[i] \notin Range(DEFAULT_CHARSET)
        THEN [ok |-> FALSE, exc |-> "ValueError", val |-> <<>>]
        ELSE Bind(B58DecodeInt(block, DEFAULT_CHARSET), LAMBDA num :
                  IF Len(num) > size
                  THEN [ok |-> FALSE, exc |-> "ValueError", val |-> <<>>]
                  ELSE [ok |-> TRUE, exc |-> "",
                        val |-> Zeros(size - Len(num)) \o num])

\* base58_xmr.decode(enc): the hexadecimal digits of the decoded bytes
XmrDecode(enc) ==
    LET full == Len(enc) \div XmrFullEncodedBlockSize
        last == Len(enc) % XmrFullEncodedBlockSize
        nblocks == full + (IF last > 0 THEN 1 ELSE 0)
        blocks == Tup([k \in 1..nblocks |->
                        XmrDecodeBlock(
                            SubSeq(enc, XmrFullEncodedBlockSize * (k - 1) + 1,
                                   IF k <= full
                                   THEN XmrFullEncodedBlockSize * k
                                   ELSE Len(enc)))], nblocks)
        bytes == Tup([i \in 1..(XmrFullBlockSize * full
                                  + (IF last > 0 THEN Len(blocks[nblocks].val)
                                                 ELSE 0)) |->
                       blocks[((i - 1) \div XmrFullBlockSize) + 1]
                           .val[((i - 1) % XmrFullBlockSize) + 1]],
                     XmrFullBlockSize * full
                       + (IF last > 0 THEN Len(blocks[nblocks].val) ELSE 0))
    IN  IF \E k \in 1..nblocks : ~blocks[k].ok
        THEN [ok |-> FALSE, exc |-> "ValueError", val |-> <<>>]
        ELSE [ok |-> TRUE, exc |-> "", val |-> HexDigits(bytes)]

\* binascii.unhexlify: Error on an odd number of digits
Unhexlify(hex) ==
    IF Len(hex) % 2 = 1
    THEN [ok |-> FALSE, exc |-> "binascii.Error", val |-> <<>>]
    ELSE [ok |-> TRUE, exc |-> "",
          val |-> Tup([k \in 1..(Len(hex) \div 2) |->
                        16 * hex[2 * k - 1] + hex[2 * k]], Len(hex) \div 2)]

(***************************************************************************)
(* currency.py: the currencies, in the order they are registered.          *)
(***************************************************************************)
RippleCharset ==
    <<"r", "p", "s", "h", "n", "a", "f", "3", "9", "w", "B", "U", "D", "N",
      "E", "G", "H", "J", "K", "L", "M", "4", "P", "Q", "R", "S", "T", "7",
      "V", "W", "X", "Y", "Z", "2", "b", "c", "d", "e", "C", "g", "6", "5",
      "j", "k", "m", "8", "o", "F", "q", "i", "1", "t", "u", "v", "A", "x",
      "y", "z">>

\* Currency(name, ticker, validator, networks, charset); networks is the
\* dict in insertion order, charset <<>> stands for None
Currency(name, ticker, validator, networks, charset) ==
    [name |-> name, ticker |-> ticker, validator |-> validator,
     networks |-> networks, charset |-> charset]

Instances ==
  << Currency("bitcoin", "btc", "Base58Check",
              << <<"main", <<0, 5>> >>, <<"test", <<111, 196>> >> >>, <<>>),
     Currency("bitcoin-segwit", "btc-segwit", "SegWitCheck",
              << <<"main", <<"bc">> >>, <<"test", <<"tb">> >> >>, <<>>),
     Currency("bitcoin-cash", "bch", "Base58Check",
              << <<"main", <<0, 5>> >>, <<"test", <<111, 196>> >> >>, <<>>),
     Currency("litecoin", "ltc", "Base58Check",
              << <<"main", <<48, 5, 50>> >>, <<"test", <<111, 196>> >> >>,
              <<>>),
     Currency("litecoin-segwit", "ltc-segwit", "SegWitCheck",
              << <<"main", <<"ltc">> >>, <<"test", <<"tltc">> >> >>, <<>>),
     Currency("dogecoin", "doge", "Base58Check",
              << <<"main", <<30, 22>> >>, <<"test", <<113, 196>> >> >>, <<>>),
     Currency("dashcoin", "dash", "Base58Check",
              << <<"main", <<76, 16>> >>, <<"test", <<140, 19>> >> >>, <<>>),
     Currency("neocoin", "neo", "Base58Check",
              << <<"both", <<23>> >> >>, <<>>),
     Currency("gobyte", "gbx", "Base58Check",
              << <<"main", <<38, 10>> >>, <<"test", <<112, 20>> >> >>, <<>>),
     Currency("gincoin", "gin", "Base58Check",
              << <<"main", <<38, 10>> >>, <<"test", <<140, 19>> >> >>, <<>>),
     Currency("phore", "phr", "Base58Check",
              << <<"main", <<55, 13>> >>, <<"test", <<139, 19>> >> >>, <<>>),
     Currency("zcoin", "xzc", "Base58Check",
              << <<"main", <<82, 7>> >>, <<"test", <<65, 178>> >> >>, <<>>),
     Currency("pivx", "pivx", "Base58Check",
              << <<"main", <<30, 13>> >>, <<"test", <<139, 19>> >> >>, <<>>),
     Currency("ripple", "xrp", "Base58Check",
              << <<"both", <<0, 5>> >> >>, RippleCharset),
     Currency("ethereum", "eth", "Ethereum", <<>>, <<>>),
     Currency("ether-zero", "etz", "Ethereum", <<>>, <<>>),
     Currency("ethereum-classic", "etc", "Ethereum", <<>>, <<>>),
     Currency("monero", "xmr", "Monero",
              << <<"main", <<18, 42>> >>, <<"main_integrated", <<19>> >>,
                 <<"test", <<53, 63>> >>, <<"test_integrated", <<54>> >>,
                 <<"stage", <<24, 36>> >>, <<"stage_integrated", <<25>> >> >>,
              <<>>),
     Currency("binance", "bnb", "SegWitCheck",
              << <<"both", <<"bnb">> >> >>, <<>>) >>

\* a lookup that falls back on the first currency instead of None
CurrenciesGetOrFirst(name) ==
    IF \E i \in 1..Len(Instances) :
           name \in {Instances[i].name, Instances[i].ticker}
    THEN CHOOSE i \in 1..Len(Instances) :
             /\ name \in {Instances[i].name, Instances[i].ticker}
             /\ \A j \in 1..(i - 1) :
                    name \notin {Instances[j].name, Instances[j].ticker}
    ELSE 1

\* Currencies.get(name): the position in Instances of the first currency
\* whose name or ticker is name, 0 (the default, None) when there is none
CurrenciesGet(name) ==
    IF \E i \in 1..Len(Instances) :
           name \in {Instances[i].name, Instances[i].ticker}
    THEN CHOOSE i \in 1..Len(Instances) :
             /\ name \in {Instances[i].name, Instances[i].ticker}
             /\ \A j \in 1..(i - 1) :
                    name \notin {Instances[j].name, Instances[j].ticker}
    ELSE 0

\* currency.networks[label]
NetworksOf(cur, label) ==
    LET k == CHOOSE k \in 1..Len(cur.networks) : cur.networks[k][1] = label
    IN  cur.networks[k][2]

(***************************************************************************)
(* validation.py: the request's helpers.                                   *)
(***************************************************************************)
\* extras that ignore the currency's charset
ExtrasDefaultOnly(cur) == DEFAULT_CHARSET

\* ValidationRequest.extras: the charset passed to b58decode and b58encode
Extras(cur) == IF cur.charset # <<>> THEN cur.charset ELSE DEFAULT_CHARSET

\* ValidationRequest.networks: every version byte of the currency
RequestNetworks(cur) ==
    UNION {Range(cur.networks[k][2]) : k \in 1..Len(cur.networks)}

\* the names under which validator classes are registered on Validators
Validators == {"Base58Check", "Ethereum", "Monero"}

\* Validators.get(name) finds a validator class
ValidatorsGet(name) == name \in Validators

\* what validate() and network hand back: a value, or an exception; abytes
\* is what the validator decoded, calls the decodes it attempted
Returns(v, ab, n) ==
    [ok |-> TRUE, val |-> v, exc |-> "", abytes |-> ab, calls |-> n]
Raises(e, n) ==
    [ok |-> FALSE, val |-> FALSE, exc |-> e, abytes |-> <<>>, calls |-> n]

\* bytes[:-4] and bytes[-4:]
DropLast4(bs) == SubSeq(bs, 1, Len(bs) - 4)
Last4(bs) == SubSeq(bs, IF Len(bs) > 4 THEN Len(bs) - 3 ELSE 1, Len(bs))

\* Python's None as a network label
None == "None"

\* a network property that stops at the first label, whatever its bytes
NetworkFirstLabel(cur, nbyte) == cur.networks[1][1]

\* the first label of currency.networks whose version bytes hold nbyte
NetworkOfByte(cur, nbyte) ==
    IF \E k \in 1..Len(cur.networks) : nbyte \in Range(cur.networks[k][2])
    THEN LET k == CHOOSE k \in 1..Len(cur.networks) :
                      /\ nbyte \in Range(cur.networks[k][2])
                      /\ \A j \in 1..(k - 1) :
                             nbyte \notin Range(cur.networks[j][2])
         IN  cur.networks[k][1]
    ELSE None

(***************************************************************************)
(* Base58CheckValidator                                                    *)
(***************************************************************************)
\* sha256(sha256(bs).digest()).digest()[:4]
DoubleSha256Head(bs) ==
    Bind(Sha256(bs), LAMBDA inner : SubSeq(Sha256(inner), 1, 4))

\* Base58CheckValidator.validate
Base58CheckValidate(address, cur) ==
    IF 25 > Len(address) /\ Len(address) > 35
    THEN Returns(FALSE, <<>>, 0)
    ELSE Bind(B58Decode(address, Extras(cur)), LAMBDA d :
         IF ~d.ok THEN Raises(d.exc, 1)
         ELSE IF d.val = <<>> THEN Raises("IndexError", 1)
         ELSE IF d.val[1] \notin RequestNetworks(cur)
         THEN Returns(FALSE, d.val, 1)
         ELSE IF Last4(d.val) # DoubleSha256Head(DropLast4(d.val))
         THEN Returns(FALSE, d.val, 1)
         ELSE Bind(B58Encode(d.val, Extras(cur)), LAMBDA enc :
                   Returns(address = enc, d.val, 1)))

\* Base58CheckValidator.network
Base58CheckNetwork(address, cur) ==
    Bind(B58Decode(address, Extras(cur)), LAMBDA d :
         IF ~d.ok THEN Raises(d.exc, 1)
         ELSE IF d.val = <<>> THEN Raises("IndexError", 1)
         ELSE Returns(NetworkOfByte(cur, d.val[1]), d.val, 1))

(***************************************************************************)
(* EthereumValidator                                                       *)
(***************************************************************************)
HexLower == Range(Digits) \cup {"a", "b", "c", "d", "e", "f"}
HexUpper == Range(Digits) \cup {"A", "B", "C", "D", "E", "F"}

StartsWith0x(address) ==
    Len(address) >= 2 /\ address[1] = "0" /\ address[2] = "x"

\* [chars]{40}$ matched against all of str: $ also matches before a final
\* newline
Match40(str, chars) ==
    /\ Len(str) \in {40, 41}
    /\ \A i \in 1..40 : str[i] \in chars
    /\ Len(str) = 41 => str[41] = "\n"

\* one of non_checksummed_patterns matched against the address:
\* ^(0x)?[0-9a-f]{40}$ and ^(0x)?[0-9A-F]{40}$
PatternMatch(address, chars) ==
    \/ Match40(address, chars)
    \/ StartsWith0x(address) /\ Match40(SubSeq(address, 3, Len(address)), chars)

\* a loop that only looks for letters that should be uppercase
CaseMismatchUpperOnly(addr, hash, i) ==
    hash[i] >= 8 /\ UpperChar(addr[i]) # addr[i]

\* the loop of EthereumValidator.validate at position i of addr: the
\* letter's case disagrees with digit i of the digest
CaseMismatch(addr, hash, i) ==
    \/ hash[i] >= 8 /\ UpperChar(addr[i]) # addr[i]
    \/ hash[i] < 8 /\ LowerChar(addr[i]) # addr[i]

\* the checksum part of EthereumValidator.validate: the loop over the
\* characters of the address without its 0x, against the digits of the
\* digest of its lowercase form
EthereumChecksum(address) ==
    LET addr == IF StartsWith0x(address)
                THEN SubSeq(address, 3, Len(address)) ELSE address
    IN  Bind(HexDigits(Keccak256(Encode(Lower(addr)))), LAMBDA addr_hash :
             IF \E i \in 1..Len(addr) :
                    i <= Len(addr_hash) /\ CaseMismatch(addr, addr_hash, i)
             THEN Returns(FALSE, <<>>, 0)
             ELSE IF Len(addr) > Len(addr_hash)
             THEN Raises("IndexError", 0)
             ELSE Returns(TRUE, <<>>, 0))

\* EthereumValidator.validate
EthereumValidate(address, cur) ==
    IF PatternMatch(address, HexLower) \/ PatternMatch(address, HexUpper)
    THEN Returns(TRUE, <<>>, 0)
    ELSE EthereumChecksum(address)

\* EthereumValidator.network
EthereumNetwork(address, cur) == Returns("both", <<>>, 0)

(***************************************************************************)
(* MoneroValidator                                                         *)
(***************************************************************************)
\* address_regex and integrated_address_regex: ^[alphabet]{n}$
MoneroRegexMatch(address, n) ==
    /\ Len(address) \in {n, n + 1}
    /\ \A i \in 1..n : address[i] \in Range(DEFAULT_CHARSET)
    /\ Len(address) = n + 1 => address[n + 1] = "\n"

\* MoneroValidator.decode: (netbyte, valid checksum)
MoneroDecode(address) ==
    Bind(XmrDecode(address), LAMBDA hex :
    Bind(Unhexlify(hex.val), LAMBDA un :
         IF ~hex.ok THEN [ok |-> FALSE, exc |-> hex.exc]
         ELSE IF ~un.ok THEN [ok |-> FALSE, exc |-> un.exc]
         ELSE IF un.val = <<>> THEN [ok |-> FALSE, exc |-> "IndexError"]
         ELSE Bind(SubSeq(Keccak256(DropLast4(un.val)), 1, 4), LAMBDA sum :
                   [ok |-> TRUE, exc |-> "", decoded |-> un.val,
                    netbyte |-> un.val[1], valid |-> Last4(un.val) = sum])))

\* a validate that takes the version byte of either shape for both shapes
MoneroValidateAnyShape(address, cur) ==
    IF MoneroRegexMatch(address, 95) \/ MoneroRegexMatch(address, 106)
    THEN Bind(MoneroDecode(address), LAMBDA d :
             IF ~d.ok THEN Raises(d.exc, 1)
             ELSE Returns(d.netbyte \in RequestNetworks(cur) /\ d.valid,
                          d.decoded, 1))
    ELSE Returns(FALSE, <<>>, 0)

\* MoneroValidator.validate
MoneroValidate(address, cur) ==
    IF MoneroRegexMatch(address, 95)
    THEN Bind(MoneroDecode(address), LAMBDA d :
             IF ~d.ok THEN Raises(d.exc, 1)
             ELSE Returns(/\ d.netbyte \in Range(NetworksOf(cur, "main")
                                                  \o NetworksOf(cur, "test")
                                                  \o NetworksOf(cur, "stage"))
                          /\ d.valid, d.decoded, 1))
    ELSE IF MoneroRegexMatch(address, 106)
    THEN Bind(MoneroDecode(address), LAMBDA d :
             IF ~d.ok THEN Raises(d.exc, 1)
             ELSE Returns(/\ d.netbyte \in
                               Range(NetworksOf(cur, "main_integrated")
                                       \o NetworksOf(cur, "test_integrated")
                                       \o NetworksOf(cur, "stage_integrated"))
                          /\ d.valid, d.decoded, 1))
    ELSE Returns(FALSE, <<>>, 0)

\* MoneroValidator.network
MoneroNetwork(address, cur) ==
    Bind(MoneroDecode(address), LAMBDA d :
         IF ~d.ok THEN Raises(d.exc, 1)
         ELSE Returns(NetworkOfByte(cur, d.netbyte), d.decoded, 1))

\* validator.validate() and validator.network of the validator class
\* registered under the currency's validator name
Validate(address, cur) ==
    CASE cur.validator = "Base58Check" -> Base58CheckValidate(address, cur)
      [] cur.validator = "Ethereum" -> EthereumValidate(address, cur)
      [] cur.validator = "Monero" -> MoneroValidate(address, cur)

Network(address, cur) ==
    CASE cur.validator = "Base58Check" -> Base58CheckNetwork(address, cur)
      [] cur.validator = "Ethereum" -> EthereumNetwork(address, cur)
      [] cur.validator = "Monero" -> MoneroNetwork(address, cur)

(***************************************************************************)
(* The addresses the caller passes to validate().                          *)
(***************************************************************************)
BtcMain ==
    <<"1", "B", "o", "a", "t", "S", "L", "R", "H", "t", "K", "N", "n", "g",
      "k", "d", "X", "E", "e", "o", "b", "R", "7", "6", "b", "5", "3", "L",
      "E", "T", "t", "p", "y", "T">>
BtcScript ==
    <<"3", "M", "z", "U", "u", "n", "6", "V", "v", "J", "Q", "z", "f", "e",
      "B", "K", "V", "C", "M", "Y", "b", "j", "4", "5", "j", "G", "T", "e",
      "5", "M", "A", "Y", "y", "q">>
BtcTest ==
    <<"m", "m", "H", "t", "f", "a", "F", "p", "S", "F", "a", "W", "U", "J",
      "A", "4", "9", "U", "h", "k", "q", "f", "E", "E", "x", "V", "D", "R",
      "L", "H", "F", "m", "D", "D">>
LtcMain ==
    <<"L", "W", "r", "z", "Z", "r", "g", "B", "v", "i", "e", "g", "6", "S",
      "F", "K", "2", "G", "b", "w", "t", "Z", "D", "D", "A", "y", "8", "h",
      "s", "H", "o", "M", "L", "L">>
DogeMain ==
    <<"D", "C", "J", "Z", "1", "q", "8", "J", "s", "Q", "T", "Z", "Q", "U",
      "w", "u", "1", "2", "Y", "v", "5", "K", "Z", "z", "c", "k", "f", "a",
      "a", "Z", "4", "L", "n", "Y">>
DashTest ==
    <<"y", "d", "S", "N", "X", "H", "N", "U", "f", "A", "g", "N", "b", "i",
      "h", "Y", "p", "k", "L", "D", "S", "G", "h", "S", "q", "n", "W", "f",
      "A", "B", "n", "6", "Z", "f">>
NeoBoth ==
    <<"A", "W", "2", "b", "t", "6", "p", "V", "1", "u", "K", "c", "J", "x",
      "m", "p", "8", "1", "g", "4", "C", "g", "1", "T", "h", "S", "H", "X",
      "2", "b", "r", "s", "E", "3">>
GobyteMain ==
    <<"G", "S", "Y", "p", "9", "f", "u", "5", "g", "T", "6", "J", "f", "f",
      "t", "Y", "y", "s", "T", "5", "C", "T", "W", "3", "H", "R", "U", "g",
      "U", "3", "F", "u", "s", "P">>
PhoreMain ==
    <<"P", "B", "v", "9", "p", "n", "D", "t", "w", "M", "T", "V", "a", "Y",
      "s", "d", "m", "9", "c", "a", "a", "d", "g", "j", "1", "Y", "7", "7",
      "z", "J", "S", "Q", "G", "w">>
ZcoinTest ==
    <<"2", "E", "o", "p", "g", "T", "e", "f", "x", "z", "1", "4", "y", "u",
      "L", "E", "h", "y", "D", "C", "N", "M", "f", "E", "v", "k", "z", "r",
      "V", "b", "h", "G", "L", "N", "e">>
PivxMain ==
    <<"6", "X", "e", "G", "W", "N", "s", "y", "t", "s", "i", "y", "g", "j",
      "7", "M", "t", "N", "9", "D", "W", "P", "2", "Y", "t", "Q", "N", "Y",
      "Y", "C", "w", "6", "V", "W">>
RippleBoth ==
    <<"r", "G", "e", "N", "b", "p", "G", "Q", "e", "m", "f", "W", "P", "P",
      "9", "R", "x", "Y", "4", "9", "D", "p", "t", "w", "E", "S", "w", "N",
      "s", "i", "S", "G", "R">>
BtcShort == <<"1", "2", "r", "D", "5", "9", "R", "q", "d", "M">>
BtcLong ==
    <<"5", "h", "U", "t", "X", "D", "i", "g", "a", "r", "L", "5", "g", "E",
      "C", "G", "v", "X", "3", "m", "m", "D", "d", "T", "7", "N", "q", "L",
      "u", "v", "L", "c", "b", "k", "t", "E", "K", "i", "A", "s", "2", "B">>
BtcBadChecksum ==
    <<"1", "B", "o", "a", "t", "S", "L", "R", "H", "t", "K", "N", "n", "g",
      "k", "d", "X", "E", "e", "o", "b", "R", "7", "6", "b", "5", "3", "L",
      "E", "T", "t", "p", "y", "U">>
BtcBadChar ==
    <<"1", "B", "o", "a", "t", "0", "L", "R", "H", "t", "K", "N", "n", "g",
      "k", "d", "X", "E", "e", "o", "b", "R", "7", "6", "b", "5", "3", "L",
      "E", "T", "t", "p", "y", "T">>
EthMixed ==
    <<"0", "x", "5", "a", "A", "e", "b", "6", "0", "5", "3", "F", "3", "E",
      "9", "4", "C", "9", "b", "9", "A", "0", "9", "f", "3", "3", "6", "6",
      "9", "4", "3", "5", "E", "7", "E", "f", "1", "B", "e", "A", "e", "d">>
EthUpper ==
    <<"0", "x", "5", "2", "9", "0", "8", "4", "0", "0", "0", "9", "8", "5",
      "2", "7", "8", "8", "6", "E", "0", "F", "7", "0", "3", "0", "0", "6",
      "9", "8", "5", "7", "D", "2", "E", "4", "1", "6", "9", "E", "E", "7">>
EthLower ==
    <<"d", "e", "7", "0", "9", "f", "2", "1", "0", "2", "3", "0", "6", "2",
      "2", "0", "9", "2", "1", "0", "6", "0", "3", "1", "4", "7", "1", "5",
      "6", "2", "9", "0", "8", "0", "e", "2", "f", "b", "7", "7">>
EthLowerNewline ==
    <<"d", "e", "7", "0", "9", "f", "2", "1", "0", "2", "3", "0", "6", "2",
      "2", "0", "9", "2", "1", "0", "6", "0", "3", "1", "4", "7", "1", "5",
      "6", "2", "9", "0", "8", "0", "e", "2", "f", "b", "7", "7", "\n">>
EthTwoLetters ==
    <<"2", "2", "7", "0", "7", "9", "3", "A", "2", "9", "8", "1", "2", "6",
      "4", "1", "6", "6", "7", "8", "5", "1", "3", "c", "0", "4", "8", "1",
      "0", "2", "2", "6", "9", "8", "6", "1", "8", "6", "7", "2">>
EthFewLetters ==
    <<"8", "7", "3", "b", "8", "4", "8", "8", "3", "8", "3", "E", "2", "6",
      "2", "6", "2", "7", "3", "9", "d", "4", "9", "4", "5", "4", "8", "9",
      "4", "7", "0", "f", "5", "3", "2", "5", "8", "6", "A", "4">>
EthNonHex ==
    <<"g", "9", "6", "5", "4", "4", "1", "4", "5", "2", "7", "0", "2", "6",
      "3", "3", "4", "Z", "5", "3", "1", "9", "4", "2", "6", "1", "4", "6",
      "8", "9", "7", "3", "7", "7", "1", "0", "7", "5", "5", "7">>
EthPrefixOnly == <<"0", "x">>
EthTooLong ==
    <<"7", "7", "7", "7", "7", "7", "7", "7", "7", "7", "7", "7", "7", "7",
      "7", "7", "7", "7", "7", "7", "7", "7", "7", "7", "7", "7", "7", "7",
      "7", "7", "7", "7", "7", "7", "7", "7", "7", "7", "7", "7", "7", "7",
      "7", "7", "7", "7", "7", "7", "7", "7", "7", "7", "7", "7", "7", "7",
      "7", "7", "7", "7", "7", "7", "7", "7", "7">>
XmrDonation ==
    <<"4", "4", "A", "F", "F", "q", "5", "k", "S", "i", "G", "B", "o", "Z",
      "4", "N", "M", "D", "w", "Y", "t", "N", "1", "8", "o", "b", "c", "8",
      "A", "e", "m", "S", "3", "3", "D", "B", "L", "W", "s", "3", "H", "7",
      "o", "t", "X", "f", "t", "3", "X", "j", "r", "p", "D", "t", "Q", "G",
      "v", "7", "S", "q", "S", "s", "a", "B", "Y", "B", "b", "9", "8", "u",
      "N", "b", "r", "2", "V", "B", "B", "E", "t", "7", "f", "2", "w", "f",
      "n", "3", "R", "V", "G", "Q", "B", "E", "P", "3", "A">>
XmrStage ==
    <<"5", "9", "i", "G", "u", "U", "R", "h", "6", "E", "V", "f", "f", "f",
      "x", "z", "h", "8", "t", "P", "F", "J", "j", "j", "d", "E", "a", "s",
      "M", "6", "9", "b", "E", "3", "S", "N", "8", "6", "E", "3", "F", "T",
      "r", "D", "A", "T", "8", "W", "7", "3", "g", "C", "e", "2", "e", "Z",
      "n", "G", "T", "h", "T", "1", "f", "P", "X", "h", "S", "b", "Z", "P",
      "G", "8", "b", "P", "m", "Z", "7", "4", "z", "k", "D", "K", "U", "3",
      "E", "T", "i", "x", "6", "Q", "g", "D", "D", "r", "E">>
XmrIntegrated ==
    <<"4", "J", "1", "N", "T", "A", "F", "N", "L", "G", "D", "Q", "D", "L",
      "Z", "K", "B", "v", "d", "Q", "N", "d", "V", "i", "B", "e", "8", "p",
      "b", "d", "w", "4", "K", "G", "W", "b", "U", "a", "u", "e", "z", "1",
      "b", "E", "X", "p", "s", "6", "K", "o", "s", "f", "Q", "1", "7", "S",
      "5", "X", "p", "a", "e", "6", "5", "S", "C", "K", "2", "U", "E", "x",
      "U", "M", "x", "J", "q", "N", "G", "L", "Y", "y", "M", "1", "U", "E",
      "h", "2", "v", "u", "J", "z", "1", "q", "M", "K", "T", "3", "9", "Q",
      "w", "7", "k", "U", "5", "F", "S", "F">>
XmrStdIntegratedByte ==
    <<"4", "L", "W", "p", "n", "U", "d", "W", "T", "p", "A", "K", "h", "1",
      "X", "j", "1", "J", "9", "X", "K", "J", "i", "j", "K", "t", "X", "h",
      "n", "Y", "Q", "G", "3", "2", "C", "N", "H", "f", "5", "3", "g", "d",
      "1", "E", "j", "A", "o", "D", "w", "N", "t", "5", "W", "k", "Q", "g",
      "p", "Z", "Q", "B", "n", "7", "x", "P", "5", "V", "J", "L", "8", "f",
      "X", "g", "D", "T", "t", "H", "e", "P", "g", "M", "w", "o", "t", "y",
      "F", "E", "A", "L", "F", "w", "9", "t", "e", "3", "b">>
XmrIntStandardByte ==
    <<"4", "5", "g", "h", "d", "4", "A", "S", "Q", "u", "u", "c", "7", "E",
      "m", "t", "D", "r", "f", "L", "3", "U", "T", "Y", "F", "X", "G", "k",
      "S", "4", "Y", "c", "j", "W", "8", "T", "R", "T", "s", "U", "a", "r",
      "G", "1", "N", "Q", "A", "4", "Y", "m", "S", "4", "m", "d", "s", "Z",
      "h", "t", "A", "o", "x", "6", "n", "U", "o", "T", "T", "K", "D", "7",
      "Q", "a", "C", "a", "i", "8", "j", "V", "1", "8", "w", "H", "w", "C",
      "F", "B", "C", "j", "G", "x", "v", "b", "J", "u", "o", "r", "D", "4",
      "D", "F", "v", "K", "C", "y", "b", "3">>
XmrBadChecksum ==
    <<"4", "3", "X", "T", "t", "t", "f", "4", "k", "G", "8", "c", "J", "S",
      "r", "m", "m", "3", "V", "h", "R", "6", "A", "k", "6", "a", "g", "H",
      "p", "W", "G", "L", "V", "K", "x", "L", "3", "p", "3", "4", "B", "w",
      "H", "4", "R", "3", "q", "t", "E", "R", "f", "d", "2", "t", "F", "4",
      "9", "e", "C", "v", "f", "3", "L", "S", "z", "N", "j", "j", "s", "f",
      "p", "N", "h", "E", "L", "t", "j", "9", "Q", "h", "9", "k", "c", "B",
      "7", "4", "T", "n", "K", "6", "C", "u", "K", "E", "B">>
XmrUnknownByte ==
    <<"1", "G", "P", "Z", "a", "Z", "9", "4", "S", "t", "y", "i", "a", "U",
      "M", "7", "9", "c", "2", "p", "g", "6", "2", "F", "b", "B", "S", "C",
      "i", "4", "K", "J", "Y", "f", "Y", "c", "r", "n", "Q", "h", "w", "p",
      "8", "M", "f", "4", "r", "h", "p", "b", "7", "R", "8", "L", "i", "6",
      "X", "w", "L", "C", "Z", "1", "c", "N", "g", "k", "C", "L", "h", "3",
      "Q", "B", "R", "2", "e", "2", "N", "8", "U", "x", "m", "m", "y", "J",
      "T", "u", "A", "Q", "5", "1", "w", "Z", "5", "v", "m">>
XmrBadChar ==
    <<"5", "9", "i", "G", "u", "U", "R", "h", "6", "E", "V", "f", "f", "f",
      "x", "z", "h", "8", "t", "P", "F", "J", "j", "j", "d", "E", "a", "s",
      "M", "6", "9", "b", "E", "3", "S", "N", "8", "6", "E", "3", "0", "T",
      "r", "D", "A", "T", "8", "W", "7", "3", "g", "C", "e", "2", "e", "Z",
      "n", "G", "T", "h", "T", "1", "f", "P", "X", "h", "S", "b", "Z", "P",
      "G", "8", "b", "P", "m", "Z", "7", "4", "z", "k", "D", "K", "U", "3",
      "E", "T", "i", "x", "6", "Q", "g", "D", "D", "r", "E">>
XmrOneBlock == <<"4", "8", "P", "3", "j", "A", "H", "z", "L", "M", "5">>
Empty == <<>>

\* how many trailing characters a caller may have lost from an address
MaxCut == 2

\* address without its last k characters
Cut(address, k) == SubSeq(address, 1, Len(address) - k)

Cuts(address) == {Cut(address, k) : k \in 1..MaxCut}

\* address with the case of its i-th character flipped
FlipCase(address, i) ==
    Tup([j \in 1..Len(address) |->
          IF j # i THEN address[j]
          ELSE IF address[j] \in Range(Lowers) THEN UpperChar(address[j])
          ELSE LowerChar(address[j])], Len(address))

LetterPositions(address) ==
    {i \in 1..Len(address) : address[i] \in Range(Lowers) \cup Range(Uppers)}

\* the addresses whose single-letter case flips are passed too
FlipBases == {EthMixed, SubSeq(EthMixed, 3, Len(EthMixed)), EthTwoLetters,
              EthFewLetters, EthLower}

Plain(addresses) == {[address |-> a, base |-> <<>>] : a \in addresses}

Flipped ==
    UNION {{[address |-> FlipCase(b, i), base |-> b] :
               i \in LetterPositions(b)} : b \in FlipBases}

Common == {Empty, BtcMain}

Base58Pool ==
    {BtcMain, BtcScript, BtcTest, LtcMain, BtcShort, BtcLong,
     BtcBadChecksum, BtcBadChar, RippleBoth} \cup Cuts(BtcMain)

EthereumPool ==
    {EthMixed, SubSeq(EthMixed, 3, Len(EthMixed)), EthUpper, EthLower,
     EthLowerNewline, EthTwoLetters, EthFewLetters, EthNonHex,
     EthPrefixOnly, EthTooLong} \cup Cuts(EthMixed)

MoneroPool ==
    {XmrDonation, XmrStage, XmrIntegrated, XmrStdIntegratedByte,
     XmrIntStandardByte, XmrBadChecksum, XmrUnknownByte, XmrBadChar,
     XmrOneBlock} \cup Cuts(XmrDonation)

\* an address of its own for each of the other Base58Check currencies
Sample(name) ==
    CASE name \in {"bitcoin-cash", "btc"} -> {BtcScript}
      [] name \in {"litecoin", "ltc"} -> {LtcMain}
      [] name \in {"dogecoin", "doge"} -> {DogeMain}
      [] name \in {"dashcoin", "dash"} -> {DashTest}
      [] name \in {"neocoin", "neo"} -> {NeoBoth}
      [] name \in {"gobyte", "gbx", "gincoin"} -> {GobyteMain}
      [] name \in {"phore", "phr"} -> {PhoreMain}
      [] name \in {"zcoin", "xzc"} -> {ZcoinTest}
      [] name = "pivx" -> {PivxMain}
      [] name \in {"ripple", "xrp"} -> {RippleBoth}
      [] name \in {"eth", "ether-zero", "ethereum-classic"} -> {EthMixed}
      [] name = "xmr" -> {XmrStage}
      [] OTHER -> {}

\* the identifiers the caller passes: every name and ticker, and some that
\* are no currency's
Identifiers ==
    UNION {{Instances[i].name, Instances[i].ticker} :
              i \in 1..Len(Instances)}
      \cup {"", "BTC", "bitcoin2", "Base58Check"}

Inputs(id) ==
    CASE id = "bitcoin" -> Plain(Common \cup Base58Pool)
      [] id = "ethereum" -> Plain(Common \cup EthereumPool) \cup Flipped
      [] id = "monero" -> Plain(Common \cup MoneroPool)
      [] OTHER -> Plain(Common \cup Sample(id))

(***************************************************************************)
(* validate(currency, address), step by step.                              *)
(***************************************************************************)
VARIABLES
    pc,           \* where the call is
    identifier,   \* the currency argument
    address,      \* request.address
    base,         \* the address this one is a case flip of, or <<>>
    currency,     \* request.currency: a position in Instances, or 0
    valid,        \* what validator.validate() returned
    network,      \* what validator.network returned
    abytes,       \* the bytes validate() decoded the address to
    decodeCalls,  \* the decodes of the address attempted by the validator
    raised,       \* the exception that leaves validate(), "" if none
    cause,        \* the exception that CoinaddrException wraps
    result        \* <<the ValidationResult>>, or <<>>

vars == <<pc, identifier, address, base, currency, valid, network, abytes,
          decodeCalls, raised, cause, result>>

Init ==
    /\ pc = "idle"
    /\ identifier = ""
    /\ address = <<>>
    /\ base = <<>>
    /\ currency = 0
    /\ valid = FALSE
    /\ network = None
    /\ abytes = <<>>
    /\ decodeCalls = 0
    /\ raised = ""
    /\ cause = ""
    /\ result = <<>>

\* validate(): ValidationRequest(currency, address).  The converter of
\* currency is Currencies.get; its validator instance_of(Currency) raises
\* TypeError on None.
Call(id, in) ==
    /\ pc = "idle"
    /\ identifier' = id
    /\ address' = in.address
    /\ base' = in.base
    /\ currency' = CurrenciesGet(id)
    /\ IF CurrenciesGet(id) = 0
       THEN pc' = "raised" /\ raised' = "TypeError"
       ELSE pc' = "request" /\ raised' = ""
    /\ UNCHANGED <<valid, network, abytes, decodeCalls, cause, result>>

\* execute(): validator = Validators.get(self.currency.validator)(self),
\* outside the try
ExecuteLookup ==
    /\ pc = "request"
    /\ IF ValidatorsGet(Instances[currency].validator)
       THEN pc' = "validator" /\ raised' = ""
       ELSE pc' = "raised" /\ raised' = "UnknownValidatorSchemeError"
    /\ UNCHANGED <<identifier, address, base, currency, valid, network,
                   abytes, decodeCalls, cause, result>>

\* execute(): valid=validator.validate(), inside the try
ExecuteValidate ==
    /\ pc = "validator"
    /\ \E r \in {Validate(address, Instances[currency])} :
           /\ decodeCalls' = decodeCalls + r.calls
           /\ abytes' = r.abytes
           /\ IF r.ok
              THEN /\ valid' = r.val
                   /\ pc' = "validated"
                   /\ UNCHANGED <<raised, cause>>
              ELSE /\ pc' = "raised"
                   /\ raised' = "CoinaddrException"
                   /\ cause' = r.exc
                   /\ UNCHANGED valid
    /\ UNCHANGED <<identifier, address, base, currency, network, result>>

\* execute(): network=validator.network, inside the try
ExecuteNetwork ==
    /\ pc = "validated"
    /\ \E r \in {Network(address, Instances[currency])} :
           /\ decodeCalls' = decodeCalls + r.calls
           /\ IF r.ok
              THEN /\ network' = r.val
                   /\ pc' = "resolved"
                   /\ UNCHANGED <<raised, cause>>
              ELSE /\ pc' = "raised"
                   /\ raised' = "CoinaddrException"
                   /\ cause' = r.exc
                   /\ UNCHANGED network
    /\ UNCHANGED <<identifier, address, base, currency, valid, abytes,
                   result>>

\* execute(): ValidationResult(...), inside the try; the validator
\* instance_of(str) of its network raises TypeError on None
ExecuteResult ==
    /\ pc = "resolved"
    /\ IF network = None
       THEN /\ pc' = "raised"
            /\ raised' = "CoinaddrException"
            /\ cause' = "TypeError"
            /\ UNCHANGED result
       ELSE /\ pc' = "returned"
            /\ result' = <<[name |-> Instances[currency].name,
                            ticker |-> Instances[currency].ticker,
                            address |-> address,
                            valid |-> valid,
                            network |-> network]>>
            /\ UNCHANGED <<raised, cause>>
    /\ UNCHANGED <<identifier, address, base, currency, valid, network,
                   abytes, decodeCalls>>

\* the caller has the result, or the exception; request, validator and
\* result are discarded
Return ==
    /\ pc \in {"returned", "raised"}
    /\ pc' = "idle"
    /\ identifier' = ""
    /\ address' = <<>>
    /\ base' = <<>>
    /\ currency' = 0
    /\ valid' = FALSE
    /\ network' = None
    /\ abytes' = <<>>
    /\ decodeCalls' = 0
    /\ raised' = ""
    /\ cause' = ""
    /\ result' = <<>>

Next ==
    \/ \E id \in Identifiers : \E in \in Inputs(id) : Call(id, in)
    \/ ExecuteLookup
    \/ ExecuteValidate
    \/ ExecuteNetwork
    \/ ExecuteResult
    \/ Return

Spec == Init /\ [][Next]_vars

(***************************************************************************)
(* The properties of validate().  In a state where currency # 0, abytes is *)
(* what validate() decoded and decodeCalls the decodes attempted so far.   *)
(***************************************************************************)
\* C1: when the decoding of the address fails inside the validator of a
\* registered currency, the call returns a ValidationResult with
\* valid = false; it does not raise.
C1_DecodeFailureGivesInvalidResult ==
    (/\ pc \in {"returned", "raised"}
     /\ currency # 0
     /\ CASE Instances[currency].validator = "Base58Check" ->
                 LET d == B58Decode(address, Extras(Instances[currency]))
                 IN  ~d.ok \/ d.val = <<>>
          [] Instances[currency].validator = "Monero" ->
                 ~MoneroDecode(address).ok
          [] OTHER -> FALSE)
    => pc = "returned" /\ ~result[1].valid

\* C2: Base58CheckValidator.validate returns not valid for every address
\* shorter than 25 or longer than 35 characters, before any decode.
C2_LengthRejectedBeforeDecode ==
    (/\ pc = "validated"
     /\ Instances[currency].validator = "Base58Check"
     /\ Len(address) \notin 25..35)
    => ~valid /\ decodeCalls = 0

\* C3: a Base58Check address that decodes to a first byte in none of the
\* currency's version-byte sets gives a ValidationResult with valid = false
\* and no network; no error is raised.
C3_UnknownVersionByteGivesInvalidResult ==
    (/\ pc \in {"returned", "raised"}
     /\ currency # 0
     /\ Instances[currency].validator = "Base58Check"
     /\ abytes # <<>>
     /\ abytes[1] \notin RequestNetworks(Instances[currency]))
    => /\ pc = "returned"
       /\ ~result[1].valid
       /\ result[1].network = None

\* C4: a Monero address of a length other than 95 and 106 gives a
\* ValidationResult with valid = false, and nothing decodes it while the
\* request executes.
C4_WrongLengthNeverDecoded ==
    (/\ pc \in {"returned", "raised"}
     /\ currency # 0
     /\ Instances[currency].validator = "Monero"
     /\ Len(address) \notin {95, 106})
    => /\ pc = "returned"
       /\ ~result[1].valid
       /\ decodeCalls = 0

\* C5: for an identifier that is no currency's name or ticker,
\* Currencies.get returns None, and validate() raises while it builds the
\* request: no ValidationResult, no validator run.
C5_UnknownCurrencyRaises ==
    (/\ pc # "idle"
     /\ \A i \in 1..Len(Instances) :
            identifier \notin {Instances[i].name, Instances[i].ticker})
    => /\ CurrenciesGet(identifier) = 0
       /\ currency = 0
       /\ pc = "raised"
       /\ raised = "TypeError"
       /\ result = <<>>
       /\ decodeCalls = 0

C5_UnknownCurrencyRaised ==
    /\ pc = "raised"
    /\ identifier = "bitcoin2"
    /\ address = BtcMain
    /\ currency = 0
    /\ raised = "TypeError"

\* C6, as stated: an address that passes the checksum loop, with the case
\* of one of its letters flipped, is reported valid = false.
C6_FlippedLetterInvalid ==
    (/\ pc = "validated"
     /\ base # <<>>
     /\ Instances[currency].validator = "Ethereum"
     /\ EthereumChecksum(base) = Returns(TRUE, <<>>, 0))
    => ~valid

\* C6, amended: an address that passes the checksum loop, with the case of
\* one letter among its hexadecimal digits flipped, is reported
\* valid = false unless the flip left it all lowercase or all uppercase,
\* the forms that validate() accepts without the checksum loop.
C6_FlippedLetterInvalidUnlessSingleCase ==
    (/\ pc = "validated"
     /\ base # <<>>
     /\ Instances[currency].validator = "Ethereum"
     /\ StartsWith0x(base) => StartsWith0x(address)
     /\ ~PatternMatch(address, HexLower)
     /\ ~PatternMatch(address, HexUpper)
     /\ EthereumChecksum(base) = Returns(TRUE, <<>>, 0))
    => ~valid

C6_FlippedLetterRejected ==
    /\ pc = "validated"
    /\ base = EthMixed
    /\ address = FlipCase(EthMixed, 4)
    /\ EthereumChecksum(base) = Returns(TRUE, <<>>, 0)
    /\ ~valid

\* C7: an address that EthereumValidator.validate reports valid is, after
\* an optional leading 0x, exactly 40 hexadecimal characters.
C7_ValidIsFortyHexCharacters ==
    (/\ pc \in {"validated", "resolved", "returned"}
     /\ Instances[currency].validator = "Ethereum"
     /\ valid)
    => LET addr == IF StartsWith0x(address)
                   THEN SubSeq(address, 3, Len(address)) ELSE address
       IN  /\ Len(addr) = 40
           /\ \A i \in 1..Len(addr) : addr[i] \in HexLower \cup HexUpper

\* C8: an address that Base58CheckValidator.validate accepts is what the
\* bytes it decoded encode to in the alphabet of the request's currency:
\* encode(decode(address)) = address.
C8_ValidReencodesToAddress ==
    (/\ pc \in {"validated", "resolved", "returned"}
     /\ Instances[currency].validator = "Base58Check"
     /\ valid)
    => LET charset == IF Instances[currency].charset # <<>>
                      THEN Instances[currency].charset ELSE DEFAULT_CHARSET
       IN  /\ abytes = B58Decode(address, charset).val
           /\ B58Encode(abytes, charset) = address

C8_ValidInOwnAlphabet ==
    /\ pc = "returned"
    /\ Instances[currency].name = "ripple"
    /\ address = RippleBoth
    /\ result[1].valid

\* C9: the network of a valid Base58Check result is a label of
\* currency.networks whose version bytes hold the first decoded byte.
C9_ValidNetworkHoldsVersionByte ==
    (/\ pc = "returned"
     /\ Instances[currency].validator = "Base58Check"
     /\ result[1].valid)
    => \E k \in 1..Len(Instances[currency].networks) :
           /\ Instances[currency].networks[k][1] = result[1].network
           /\ abytes[1] \in Range(Instances[currency].networks[k][2])

C9_ValidOnSecondNetwork ==
    /\ pc = "returned"
    /\ Instances[currency].name = "bitcoin"
    /\ address = BtcTest
    /\ result[1].valid
    /\ result[1].network = "test"

\* C10: MoneroValidator.validate accepts an address of 95 characters only
\* with a matching checksum and a first byte among the main, test and stage
\* bytes, and one of 106 characters only with a matching checksum and a
\* first byte among the main_integrated, test_integrated and
\* stage_integrated bytes.
C10_MoneroShapeAndChecksum ==
    (/\ pc \in {"validated", "resolved", "returned"}
     /\ Instances[currency].validator = "Monero"
     /\ valid)
    => LET cur == Instances[currency]
       IN  /\ Last4(abytes) = SubSeq(Keccak256(DropLast4(abytes)), 1, 4)
           /\ Len(address) = 95 =>
                  abytes[1] \in Range(NetworksOf(cur, "main"))
                                  \cup Range(NetworksOf(cur, "test"))
                                  \cup Range(NetworksOf(cur, "stage"))
           /\ Len(address) = 106 =>
                  abytes[1] \in Range(NetworksOf(cur, "main_integrated"))
                                  \cup Range(NetworksOf(cur, "test_integrated"))
                                  \cup Range(NetworksOf(cur, "stage_integrated"))

C10_IntegratedAccepted ==
    /\ pc = "returned"
    /\ Instances[currency].validator = "Monero"
    /\ address = XmrIntegrated
    /\ result[1].valid
    /\ result[1].network = "main_integrated"
====
